---- MODULE Spec2Model ----
(***************************************************************************)
(* The Kasa smart-plug gateway (kasa_smart_home_server.py) and the start   *)
(* of its driver (client_kasa_workflow.py).                                *)
(*                                                                         *)
(* The gateway runs its four tools as asyncio coroutines: the code between *)
(* two awaits is one atomic step, so every action below is the stretch of  *)
(* a tool call from one await to the next.  A network round-trip           *)
(* (SmartPlug.update, turn_on, turn_off) completes with an outcome the     *)
(* device and the network choose.  A SmartPlug attribute (alias, is_on)    *)
(* can be read only after an update() of that object succeeded; reading it *)
(* earlier raises.                                                         *)
(***************************************************************************)
EXTENDS Integers, FiniteSets, Sequences, TLC

\* ------------------------------------------------------------- bounds
NCalls == 2          \* tool invocations the server holds at once

Calls == 1..NCalls
\* Names for SmartPlug objects: the slot and each call refer to at most one
\* each, and a new object is never given the name of one still referred to.
Ids == 1..(NCalls + 2)

\* ------------------------------------------------------ configuration
None == 0                                  \* Python's None; handles are 1, 2, ...
Absent == "absent"                         \* os.getenv of an unset variable
KASA_DEVICE_ALIAS == "Outdoor plug"
Addresses == {"10.0.0.5", Absent}          \* what KASA_DEVICE_IP may be at start
Credentials == {"gsk", Absent}             \* what GROQ_API_KEY may be at start
DeviceAliases == {"Outdoor plug", "Patio"} \* what the device may call itself
Ops == {"on", "off", "status", "list"}

VARIABLES
  gwPc,                \* gateway process: "boot", "serving", "exit1"
  KASA_DEVICE_IP,      \* the configured address
  kasa_plug_instance,  \* the cache slot: None or a handle
  handles,             \* the SmartPlug objects alive: handle -> its fields
  power,               \* the device: its relay
  devAlias,            \* the device: the alias it reports
  calls,               \* per invocation: pc, op, plug, newPlug, target, result
  obs,                 \* per invocation: what has happened in it so far
  last,                \* the invocation that returned most recently
  dirty,               \* someone else switched the relay since `last` returned
  groq_api_key,        \* the driver's credential, or Absent
  drvPc,               \* driver process: where it is in the script
  drvStep,             \* prompts the driver has issued
  issued               \* the prompts it has issued, in order

gateway == <<gwPc, KASA_DEVICE_IP, kasa_plug_instance, handles, power,
             devAlias, calls, obs>>
history == <<last, dirty>>
driver == <<groq_api_key, drvPc, drvStep, issued>>
vars == <<gateway, history, driver>>

\* ------------------------------------------------------------ handles
\* SmartPlug(host): constructed, nothing known about the device yet.
NewHandle(host) ==
  [host |-> host, updated |-> FALSE, alias |-> "", is_on |-> FALSE]

\* A successful update(): the object now holds what the device reports.
Refreshed(h) ==
  [h EXCEPT !.updated = TRUE, !.alias = devAlias, !.is_on = power]

\* What a round-trip to the configured address can come to.
UpdateOutcomes ==
  IF KASA_DEVICE_IP = Absent THEN {"unreachable"} ELSE {"ok", "unreachable"}

CommandOutcomes ==
  IF KASA_DEVICE_IP = Absent THEN {"unreachable"}
  ELSE {"ok", "unreachable", "rejected"}

\* ------------------------------------------------------------ results
NoResult ==
  [type |-> "none", keys |-> {}, len |-> 0, alias |-> "", is_on |-> FALSE,
   host |-> "", error |-> "", named |-> ""]

\* {"alias": plug.alias, "is_on": plug.is_on, "status": "success"}
SuccessRecord(h) ==
  [NoResult EXCEPT !.type = "dict", !.keys = {"alias", "is_on", "status"},
                   !.alias = h.alias, !.is_on = h.is_on]

\* {"error": "Kasa device '<KASA_DEVICE_ALIAS>' not found or unreachable."}
UnreachableRecord ==
  [NoResult EXCEPT !.type = "dict", !.keys = {"error"},
                   !.error = "unreachable", !.named = KASA_DEVICE_ALIAS]

\* {"error": "Failed to ... device '<plug.alias>': <e>"}
FailedRecord(h) ==
  [NoResult EXCEPT !.type = "dict", !.keys = {"error"},
                   !.error = "failed", !.named = h.alias]

\* A listing that names the configured alias, not the one the plug reports.
ListOfOne_Configured(h) ==
  [NoResult EXCEPT !.type = "list", !.len = 1, !.keys = {"alias", "is_on", "host"},
                   !.alias = KASA_DEVICE_ALIAS, !.is_on = h.is_on, !.host = h.host]

\* device_list after the append of line 145
ListOfOne(h) ==
  [NoResult EXCEPT !.type = "list", !.len = 1, !.keys = {"alias", "is_on", "host"},
                   !.alias = h.alias, !.is_on = h.is_on, !.host = h.host]

\* device_list = []
EmptyList == [NoResult EXCEPT !.type = "list"]

\* An exception that leaves the tool function.
Raised == [NoResult EXCEPT !.type = "raise"]

\* What a tool returns when get_kasa_plug gave it None.
OnNoPlug(op) == IF op = "list" THEN EmptyList ELSE UnreachableRecord

\* A tool without its try/except.
OnException_Propagate(h) == Raised

\* The except branch of a tool: the message reads plug.alias.
OnException(h) == IF h.updated THEN FailedRecord(h) ELSE Raised

\* ------------------------------------------------------ get_kasa_plug
\* A resolver that never looks at the slot.
SlotHolds_Never(slot) == FALSE

\* line 39: is there a handle in the slot?
SlotHolds(slot) == slot # None

\* line 43: what the resolver returns after the cached handle's update()
\* succeeded: the slot as it is now, read again after the await.
ReturnAfterRefresh(slot, h) == slot

\* A resolver that forgets to invalidate.
SlotAfterRefreshFailure_Keep(slot) == slot

\* line 46: the slot after the cached handle's update() raised.
SlotAfterRefreshFailure(slot) == None

\* A resolver that caches the new handle before its update() is known to work.
SlotAfterConnect_Early(outcome, p, slot) == p

\* line 53: the slot after the new handle's update().
SlotAfterConnect(outcome, p, slot) == IF outcome = "ok" THEN p ELSE slot

\* A resolver that hands out the new handle whatever its update() did.
ReturnAfterConnect_Always(outcome, p) == p

\* A resolver that caches the new handle and forgets to return it.
ReturnAfterConnect_Never(outcome, p) == None

\* lines 55 and 60: what the resolver returns after the new handle's update().
ReturnAfterConnect(outcome, p) == IF outcome = "ok" THEN p ELSE None

\* turn_kasa_device_off pasted from turn_kasa_device_on, command and all.
RelayAfter_On(op) == TRUE

\* lines 77 and 100: the relay once turn_on (turn_off) has been obeyed.
RelayAfter(op) == (op = "on")

\* ------------------------------------------------------- bookkeeping
IdleCall ==
  [pc |-> "idle", op |-> "none", by |-> "nobody", plug |-> None,
   newPlug |-> None, target |-> None, result |-> NoResult]

IdleObs ==
  [entry |-> None, nRefresh |-> 0, nConn |-> 0,
   refreshed |-> "no", connected |-> "no", resolved |-> FALSE, ret |-> None,
   allOK |-> TRUE, allFail |-> TRUE, tog |-> FALSE,
   gap |-> FALSE, power0 |-> FALSE, cmd |-> "no", upd |-> "no",
   wrapFail |-> FALSE, seen |-> FALSE, overlap |-> FALSE]

\* `last`: which tool returned last ("on" and "off" only when every
\* round-trip of that call succeeded and nobody else touched the relay since
\* it began), whether its get_kasa_plug returned None, and whether some call
\* so far has ended in the except branch of a tool.
NoLast == [op |-> "none", noPlug |-> FALSE, failedBefore |-> FALSE]

\* One more round-trip of this call has come to `outcome`.
Trip(o, outcome) ==
  [o EXCEPT !.allOK = @ /\ outcome = "ok",
            !.allFail = @ /\ outcome = "unreachable"]

\* An update() of this call has come to `outcome`: when it succeeded, `seen`
\* is the relay state that it read.
Updated(o, outcome) ==
  [Trip(o, outcome) EXCEPT !.seen = IF outcome = "ok" THEN power ELSE @]

InFlight(c) == calls[c].pc \notin {"idle"}

\* The objects something still refers to; the others are freed.
Referenced(slot, cs) ==
  ({slot} \cup UNION {{cs[c].plug, cs[c].newPlug, cs[c].target} : c \in Calls})
  \ {None}

Collect(hs, slot, cs) == [h \in Referenced(slot, cs) |-> hs[h]]

\* ------------------------------------------------------------- tools
\* get_kasa_device_status pasted from a power tool, command and all.
AfterResolve_StatusCommands(cr, r, hs) ==
  LET base == [cr EXCEPT !.newPlug = None, !.target = None, !.plug = r] IN
  IF r = None
    THEN [base EXCEPT !.pc = "done", !.result = OnNoPlug(cr.op)]
  ELSE IF cr.op = "list"
    THEN [base EXCEPT !.pc = "done",
            !.result = IF hs[r].updated THEN ListOfOne(hs[r]) ELSE Raised]
  ELSE IF ~hs[r].updated
    THEN [base EXCEPT !.pc = "done", !.result = Raised]
  ELSE [base EXCEPT !.pc = "command", !.target = r]

\* The tool after `plug = await get_kasa_plug()` gave it r (lines 74-76,
\* 97-99, 120-122, 143-150), up to its next await.
AfterResolve(cr, r, hs) ==
  LET base == [cr EXCEPT !.newPlug = None, !.target = None, !.plug = r] IN
  IF r = None
    THEN [base EXCEPT !.pc = "done", !.result = OnNoPlug(cr.op)]
  ELSE IF cr.op = "list"
    THEN [base EXCEPT !.pc = "done",
            !.result = IF hs[r].updated THEN ListOfOne(hs[r]) ELSE Raised]
  ELSE IF ~hs[r].updated
    THEN [base EXCEPT !.pc = "done", !.result = Raised]
  ELSE IF cr.op = "status"
    THEN [base EXCEPT !.pc = "op_update", !.target = r]
  ELSE [base EXCEPT !.pc = "command", !.target = r]

ObsResolved(o, r) == [o EXCEPT !.resolved = TRUE, !.ret = r]

\* lines 48-52: a new SmartPlug, and the await of its update().
Construct(c, cs, os, o, slot) ==
  LET free == Ids \ Referenced(kasa_plug_instance, calls)
      id == CHOOSE i \in free : \A j \in free : i <= j
  IN
  /\ kasa_plug_instance' = slot
  /\ calls' = [cs EXCEPT ![c].pc = "gkp_connect", ![c].newPlug = id,
                         ![c].target = None]
  /\ obs' = [os EXCEPT ![c] = [o EXCEPT !.nConn = @ + 1]]
  /\ handles' = Collect([h \in DOMAIN handles \cup {id} |->
                           IF h = id THEN NewHandle(KASA_DEVICE_IP) ELSE handles[h]],
                        slot, calls')

\* A tool is invoked: lines 72-73 (95-96, 118-119, 140-142), then
\* get_kasa_plug to its first await (lines 36-42, or 48-52 on an empty slot).
Invoke(c, o, who) ==
  /\ gwPc = "serving"
  /\ calls[c].pc = "idle"
  /\ who = "agent" => drvPc = "awaiting"
  /\ LET cs == [calls EXCEPT ![c] = [IdleCall EXCEPT !.op = o, !.by = who]]
         busy == \E d \in Calls \ {c} : InFlight(d)
         ob == [IdleObs EXCEPT !.entry = kasa_plug_instance,
                               !.gap = dirty, !.power0 = power,
                               !.overlap = busy]
         os == [d \in Calls |-> IF InFlight(d)
                                  THEN [obs[d] EXCEPT !.overlap = TRUE]
                                  ELSE obs[d]]
     IN IF SlotHolds(kasa_plug_instance)
          THEN /\ calls' = [cs EXCEPT ![c].pc = "gkp_refresh",
                                      ![c].target = kasa_plug_instance]
               /\ obs' = [os EXCEPT ![c] = [ob EXCEPT !.nRefresh = @ + 1]]
               /\ UNCHANGED <<kasa_plug_instance, handles>>
          ELSE Construct(c, cs, os, ob, kasa_plug_instance)
  /\ UNCHANGED <<gwPc, KASA_DEVICE_IP, power, devAlias, history, driver>>

\* lines 42-46: the update() of the cached handle comes back.
RefreshCached(c) ==
  /\ calls[c].pc = "gkp_refresh"
  /\ \E outcome \in UpdateOutcomes :
       LET h == calls[c].target
           o == [Updated(obs[c], outcome) EXCEPT !.refreshed = outcome]
       IN IF outcome = "ok"
            THEN LET hs == [handles EXCEPT ![h] = Refreshed(@)]
                     r == ReturnAfterRefresh(kasa_plug_instance, h)
                 IN /\ calls' = [calls EXCEPT ![c] = AfterResolve(@, r, hs)]
                    /\ obs' = [obs EXCEPT ![c] = ObsResolved(o, r)]
                    /\ handles' = Collect(hs, kasa_plug_instance, calls')
                    /\ UNCHANGED kasa_plug_instance
            ELSE Construct(c, calls, obs, o,
                           SlotAfterRefreshFailure(kasa_plug_instance))
  /\ UNCHANGED <<gwPc, KASA_DEVICE_IP, power, devAlias, history, driver>>

\* lines 52-60: the update() of the new handle comes back.
Connect(c) ==
  /\ calls[c].pc = "gkp_connect"
  /\ \E outcome \in UpdateOutcomes :
       LET p == calls[c].newPlug
           hs == IF outcome = "ok" THEN [handles EXCEPT ![p] = Refreshed(@)]
                 ELSE handles
           r == ReturnAfterConnect(outcome, p)
           o == [Updated(obs[c], outcome) EXCEPT !.connected = outcome]
       IN /\ kasa_plug_instance' = SlotAfterConnect(outcome, p, kasa_plug_instance)
          /\ calls' = [calls EXCEPT ![c] = AfterResolve(@, r, hs)]
          /\ obs' = [obs EXCEPT ![c] = ObsResolved(o, r)]
          /\ handles' = Collect(hs, kasa_plug_instance', calls')
  /\ UNCHANGED <<gwPc, KASA_DEVICE_IP, power, devAlias, history, driver>>

\* lines 77-78, 81-85 (100-101, 104-108): turn_on / turn_off comes back.
Command(c) ==
  /\ calls[c].pc = "command"
  /\ \E outcome \in CommandOutcomes :
       LET p == calls[c].plug
           o == [Trip(obs[c], outcome) EXCEPT !.cmd = outcome]
       IN IF outcome = "ok"
            THEN /\ power' = RelayAfter(calls[c].op)
                 /\ calls' = [calls EXCEPT ![c].pc = "op_update"]
                 /\ obs' = [obs EXCEPT ![c] = o]
                 /\ UNCHANGED handles
            ELSE /\ calls' = [calls EXCEPT ![c].pc = "done", ![c].target = None,
                                ![c].result = OnException(handles[p])]
                 /\ obs' = [obs EXCEPT ![c] = o]
                 /\ handles' = Collect(handles, kasa_plug_instance, calls')
                 /\ UNCHANGED power
  /\ UNCHANGED <<gwPc, KASA_DEVICE_IP, kasa_plug_instance, devAlias,
                 history, driver>>

\* lines 78-85 (101-108, 123-130): the tool's own update() comes back.
OpUpdate(c) ==
  /\ calls[c].pc = "op_update"
  /\ \E outcome \in UpdateOutcomes :
       LET p == calls[c].plug
           hs == IF outcome = "ok" THEN [handles EXCEPT ![p] = Refreshed(@)]
                 ELSE handles
           o == [Updated(obs[c], outcome) EXCEPT !.upd = outcome]
       IN /\ calls' = [calls EXCEPT ![c].pc = "done", ![c].target = None,
                         ![c].result = IF outcome = "ok" THEN SuccessRecord(hs[p])
                                       ELSE OnException(hs[p])]
          /\ obs' = [obs EXCEPT ![c] =
                       [o EXCEPT !.wrapFail = (outcome # "ok"
                                               /\ p = kasa_plug_instance)]]
          /\ handles' = Collect(hs, kasa_plug_instance, calls')
  /\ UNCHANGED <<gwPc, KASA_DEVICE_IP, kasa_plug_instance, power,
                 devAlias, history, driver>>

\* The tool's result goes back to the caller and its frame is dropped.
ReturnFrame(c) ==
  /\ calls[c].pc = "done"
  /\ calls' = [calls EXCEPT ![c] = IdleCall]
  /\ obs' = [obs EXCEPT ![c] = IdleObs]
  /\ handles' = Collect(handles, kasa_plug_instance, calls')
  /\ UNCHANGED <<gwPc, KASA_DEVICE_IP, kasa_plug_instance, power, devAlias,
                 driver>>

Return(c) == ReturnFrame(c) /\ UNCHANGED history

\* The same, with calls issued one at a time: `last` remembers the call.
ReturnLogged(c) ==
  /\ ReturnFrame(c)
  /\ last' = [op |-> IF calls[c].op \in {"on", "off"}
                        /\ obs[c].allOK /\ ~obs[c].tog
                        THEN calls[c].op ELSE "other",
              noPlug |-> obs[c].ret = None,
              failedBefore |-> last.failedBefore
                               \/ calls[c].result.error = "failed"]
  /\ dirty' = FALSE

\* The environment: somebody presses the button on the plug.
OutsideToggle ==
  /\ power' = ~power
  /\ dirty' = TRUE
  /\ obs' = [c \in Calls |-> IF InFlight(c) THEN [obs[c] EXCEPT !.tog = TRUE]
                             ELSE obs[c]]
  /\ UNCHANGED <<gwPc, KASA_DEVICE_IP, kasa_plug_instance, handles,
                 devAlias, calls, last, driver>>

\* lines 156-165: mcp.run serves, or raises and the process exits with 1.
GatewayStart ==
  /\ gwPc = "boot"
  /\ gwPc' \in {"serving", "exit1"}
  /\ UNCHANGED <<KASA_DEVICE_IP, kasa_plug_instance, handles, power,
                 devAlias, calls, obs, history, driver>>

Init ==
  /\ gwPc = "boot"
  /\ KASA_DEVICE_IP \in Addresses
  /\ kasa_plug_instance = None
  /\ handles = <<>>
  /\ power \in BOOLEAN
  /\ devAlias \in DeviceAliases
  /\ calls = [c \in Calls |-> IdleCall]
  /\ obs = [c \in Calls |-> IdleObs]
  /\ last = NoLast
  /\ dirty = FALSE
  /\ groq_api_key \in Credentials
  /\ drvPc = "boot"
  /\ drvStep = 0
  /\ issued = <<>>

\* ------------------------------------------------------------ driver
Prompts == <<"list", "turn on", "check status", "turn off">>

\* A script whose third and fourth steps changed places.
NextPrompt_Swapped(done) ==
  IF Len(done) = 2 THEN Prompts[4]
  ELSE IF Len(done) = 3 THEN Prompts[3]
  ELSE Prompts[Len(done) + 1]

\* lines 70-104: the steps come in the order they are written.
NextPrompt(done) == Prompts[Len(done) + 1]

AgentIdle == \A c \in Calls : calls[c].by # "agent"

\* lines 20-26 and 116-117: without the credential the script exits with 1.
DriverBoot ==
  /\ drvPc = "boot"
  /\ drvPc' = IF groq_api_key = Absent THEN "exit1" ELSE "get_tools"
  /\ UNCHANGED <<groq_api_key, drvStep, issued, gateway, history>>

\* lines 33-65: the tools are fetched from the gateway and the agent is
\* built; anything raised goes to the except of line 106.
DriverSetup ==
  /\ drvPc = "get_tools"
  /\ drvPc' \in (IF gwPc = "serving" THEN {"ready"} ELSE {}) \cup {"finished"}
  /\ UNCHANGED <<groq_api_key, drvStep, issued, gateway, history>>

\* lines 72, 81, 90, 99: the next prompt goes to the agent.
DriverPrompt ==
  /\ drvPc = "ready"
  /\ drvStep < Len(Prompts)
  /\ drvStep' = drvStep + 1
  /\ issued' = Append(issued, NextPrompt(issued))
  /\ drvPc' = "awaiting"
  /\ UNCHANGED <<groq_api_key, gateway, history>>

\* agent.ainvoke comes back, after the tool calls it made, with an answer,
\* or raises (line 106).
DriverAnswer ==
  /\ drvPc = "awaiting"
  /\ AgentIdle
  /\ drvPc' \in {"ready", "finished"}
  /\ UNCHANGED <<groq_api_key, drvStep, issued, gateway, history>>

\* line 111 after the fourth answer.
DriverEnd ==
  /\ drvPc = "ready"
  /\ drvStep = Len(Prompts)
  /\ drvPc' = "finished"
  /\ UNCHANGED <<groq_api_key, drvStep, issued, gateway, history>>

Callers == {"agent", "other"}

NoneInFlight == \A c \in Calls : ~InFlight(c)

\* Calls issued one at a time.
InvokeAlone(c, o, who) == NoneInFlight /\ Invoke(c, o, who)

Next ==
  \/ GatewayStart
  \/ \E c \in Calls, o \in Ops, who \in Callers : InvokeAlone(c, o, who)
  \/ \E c \in Calls : RefreshCached(c)
  \/ \E c \in Calls : Connect(c)
  \/ \E c \in Calls : Command(c)
  \/ \E c \in Calls : OpUpdate(c)
  \/ \E c \in Calls : ReturnLogged(c)
  \/ OutsideToggle
  \/ DriverBoot
  \/ DriverSetup
  \/ DriverPrompt
  \/ DriverAnswer
  \/ DriverEnd

Spec == Init /\ [][Next]_vars

\* Calls that overlap: the server takes a new invocation while others are
\* suspended in an await.  The address is configured, the device reports the
\* configured alias, only the gateway switches the relay, and the callers are
\* clients other than the driver.
InitConc ==
  /\ Init
  /\ KASA_DEVICE_IP # Absent
  /\ devAlias = KASA_DEVICE_ALIAS
  /\ groq_api_key = Absent

NextConc ==
  \/ GatewayStart
  \/ \E c \in Calls, o \in Ops : Invoke(c, o, "other")
  \/ \E c \in Calls : RefreshCached(c)
  \/ \E c \in Calls : Connect(c)
  \/ \E c \in Calls : Command(c)
  \/ \E c \in Calls : OpUpdate(c)
  \/ \E c \in Calls : Return(c)

SpecConc == InitConc /\ [][NextConc]_vars

\* ======================================================== properties
IsSuccess(r) == r.type = "dict" /\ r.keys = {"alias", "is_on", "status"}
IsFailure(r) == r.type = "dict" /\ r.keys = {"error"}
Done(c) == calls[c].pc = "done"
HasSuccessFields(r) == r.keys \cap {"alias", "is_on"} # {}

\* C1: in every reachable state the cache slot is empty or holds a live
\* handle on which an update() has succeeded: get_kasa_plug never stores a
\* handle whose initial update() raised.
C1_CacheHoldsOnlyRefreshed ==
  kasa_plug_instance # None =>
    /\ kasa_plug_instance \in DOMAIN handles
    /\ handles[kasa_plug_instance].updated

\* C1 witness: a call found a stale handle, reconnected, and the new handle
\* is the one in the slot.
C1_Witness ==
  \E c \in Calls :
    /\ Done(c)
    /\ obs[c].refreshed = "unreachable"
    /\ obs[c].connected = "ok"
    /\ kasa_plug_instance = obs[c].ret
    /\ kasa_plug_instance # None

\* C2 as stated: each of the four tools, when every round-trip of the call
\* found the address unreachable, returns a record carrying an error message,
\* raises nothing and carries no success field.
C2_Original ==
  \A c \in Calls :
    (Done(c) /\ obs[c].allFail) =>
      /\ IsFailure(calls[c].result)
      /\ ~HasSuccessFields(calls[c].result)

\* C2 amended: with the address unreachable for the whole call no tool raises
\* and none returns a success field; turn on, turn off and get status return
\* the error record naming the configured alias; list returns the empty
\* sequence.
C2_UnreachableNeverSucceeds ==
  \A c \in Calls :
    (Done(c) /\ obs[c].allFail) =>
      /\ calls[c].result.type # "raise"
      /\ ~HasSuccessFields(calls[c].result)
      /\ calls[c].op # "list" => calls[c].result = UnreachableRecord
      /\ calls[c].op = "list" => calls[c].result = EmptyList

\* C2 witness: turn on, with a stale handle in the slot, and nothing reachable.
C2_Witness ==
  \E c \in Calls :
    /\ Done(c)
    /\ obs[c].allFail
    /\ calls[c].op = "on"
    /\ obs[c].entry # None
    /\ IsFailure(calls[c].result)

\* C3 as stated: list returns one entry when resolution succeeds, with the
\* configured alias and the configured address whatever the device calls
\* itself, and the empty sequence when resolution fails.
C3_Original ==
  \A c \in Calls :
    (Done(c) /\ calls[c].op = "list") =>
      /\ obs[c].ret # None =>
           /\ calls[c].result.type = "list"
           /\ calls[c].result.len = 1
           /\ calls[c].result.alias = KASA_DEVICE_ALIAS
           /\ calls[c].result.host = KASA_DEVICE_IP
      /\ obs[c].ret = None => calls[c].result = EmptyList

\* C3 amended: the single entry carries the configured address and the alias
\* the device reports, which is the configured alias only when the device is
\* named so; on failed resolution the result is the empty sequence.
C3_ListReportsDeviceAlias ==
  \A c \in Calls :
    (Done(c) /\ calls[c].op = "list") =>
      /\ obs[c].ret # None =>
           /\ calls[c].result.type = "list"
           /\ calls[c].result.len = 1
           /\ calls[c].result.alias = devAlias
           /\ calls[c].result.host = KASA_DEVICE_IP
      /\ obs[c].ret = None => calls[c].result = EmptyList

\* C3 witness: a listing of a device that calls itself something else.
C3_Witness ==
  \E c \in Calls :
    /\ Done(c)
    /\ calls[c].op = "list"
    /\ calls[c].result.len = 1
    /\ devAlias # KASA_DEVICE_ALIAS

\* No round-trip of the call failed and nobody else switched the relay.
Clean(c) == obs[c].allOK /\ ~obs[c].tog

\* C4: with the device reachable and obeying, calls one at a time: turn on
\* returns success with is_on true, turn off success with is_on false, and a
\* get status right after a turn on (turn off) returns success with is_on
\* true (false), whatever the slot and the relay were before.
C4_PowerThenStatus ==
  \A c \in Calls :
    (Done(c) /\ Clean(c)) =>
      /\ calls[c].op = "on" =>
           IsSuccess(calls[c].result) /\ calls[c].result.is_on
      /\ calls[c].op = "off" =>
           IsSuccess(calls[c].result) /\ ~calls[c].result.is_on
      /\ (calls[c].op = "status" /\ ~obs[c].gap /\ last.op = "on") =>
           IsSuccess(calls[c].result) /\ calls[c].result.is_on
      /\ (calls[c].op = "status" /\ ~obs[c].gap /\ last.op = "off") =>
           IsSuccess(calls[c].result) /\ ~calls[c].result.is_on

\* C4 witness: the driver's third prompt: get status right after a turn on
\* that found the relay off, answered from the cached handle.
C4_Witness ==
  \E c \in Calls :
    /\ Done(c) /\ Clean(c)
    /\ calls[c].op = "status"
    /\ calls[c].by = "agent"
    /\ drvStep = 3
    /\ ~obs[c].gap
    /\ last.op = "on"
    /\ obs[c].refreshed = "ok"
    /\ calls[c].result.is_on

\* C5: a call makes at most one refresh of the cached handle and at most one
\* new connection; entered with a handle in the slot, it makes a new
\* connection exactly when that refresh fails, and when the refresh succeeds
\* it returns the handle that was in the slot.
C5_ReuseUnlessRefreshFails ==
  \A c \in Calls :
    /\ obs[c].nRefresh <= 1
    /\ obs[c].nConn <= 1
    /\ (InFlight(c) /\ obs[c].entry # None) =>
         /\ obs[c].nRefresh = 1
         /\ obs[c].refreshed # "no" =>
              (obs[c].nConn = 1 <=> obs[c].refreshed = "unreachable")
         /\ obs[c].refreshed = "no" => obs[c].nConn = 0
         /\ obs[c].refreshed = "ok" =>
              /\ obs[c].resolved
              /\ obs[c].ret = obs[c].entry
              /\ obs[c].nConn = 0

\* C5 witness: a call that reused the cached handle.
C5_Witness ==
  \E c \in Calls :
    /\ Done(c)
    /\ obs[c].entry # None
    /\ obs[c].refreshed = "ok"
    /\ obs[c].ret = obs[c].entry
    /\ obs[c].nConn = 0

\* The call found a stale handle and its fresh connection worked.
Recovered(c) ==
  /\ obs[c].entry # None
  /\ obs[c].refreshed = "unreachable"
  /\ obs[c].connected = "ok"

\* C6 as stated: a stale handle followed by a fresh connection that works
\* makes the resolution succeed and the tool return a success record.
C6_Original ==
  \A c \in Calls :
    (Done(c) /\ Recovered(c)) =>
      /\ obs[c].ret # None
      /\ obs[c].ret = kasa_plug_instance
      /\ \/ IsSuccess(calls[c].result)
         \/ calls[c].result.type = "list" /\ calls[c].result.len = 1

\* C6 amended: the resolution succeeds with a new handle, now the cached one,
\* and the stale handle's failure is never what the caller is told; the tool
\* returns a success record when the command and the refresh it makes after
\* the resolution succeed too, and the error of that later step otherwise.
C6_TransparentRecovery ==
  \A c \in Calls :
    (Done(c) /\ Recovered(c)) =>
      /\ obs[c].ret # None
      /\ obs[c].ret # obs[c].entry
      /\ obs[c].ret = kasa_plug_instance
      /\ calls[c].result # UnreachableRecord
      /\ calls[c].result.type # "raise"
      /\ calls[c].op = "list" =>
           calls[c].result.type = "list" /\ calls[c].result.len = 1
      /\ (calls[c].op # "list" /\ obs[c].cmd \in {"no", "ok"} /\ obs[c].upd = "ok") =>
           IsSuccess(calls[c].result)
      /\ (calls[c].op # "list" /\ ~(obs[c].cmd \in {"no", "ok"} /\ obs[c].upd = "ok")) =>
           IsFailure(calls[c].result) /\ calls[c].result.error = "failed"

\* C6 witness: get status recovers from a stale handle and succeeds.
C6_Witness ==
  \E c \in Calls :
    /\ Done(c) /\ Recovered(c)
    /\ calls[c].op = "status"
    /\ IsSuccess(calls[c].result)

\* C7 as stated: after any failed refresh of the cached handle, the
\* resolver's or the tool's own, the slot is empty once the tool is done,
\* unless a fresh connection succeeded later in the call.
C7_Original ==
  \A c \in Calls :
    (Done(c) /\ (\/ obs[c].refreshed = "unreachable" /\ obs[c].connected # "ok"
                 \/ obs[c].wrapFail)) =>
      kasa_plug_instance = None

\* C7 amended: only the resolver's refresh invalidates.  After it fails the
\* slot is empty once the tool is done unless the fresh connection worked;
\* after the tool's own refresh fails the slot still holds the handle.
C7_ResolverInvalidates ==
  \A c \in Calls :
    /\ (Done(c) /\ obs[c].refreshed = "unreachable" /\ obs[c].connected # "ok") =>
         kasa_plug_instance = None
    /\ (Done(c) /\ obs[c].wrapFail) =>
         kasa_plug_instance # None /\ kasa_plug_instance = calls[c].plug

\* C7 witness: a stale handle, no reconnection, the slot left empty.
C7_Witness ==
  \E c \in Calls :
    /\ Done(c)
    /\ obs[c].refreshed = "unreachable"
    /\ obs[c].connected = "unreachable"
    /\ kasa_plug_instance = None

\* C8: calls one at a time: when get_kasa_plug has returned None the slot is
\* empty, whether it was empty or held a stale handle on entry; and the call
\* after one whose resolution failed starts with a new connection, not a
\* refresh.
C8_FailureLeavesSlotEmpty ==
  \A c \in Calls :
    /\ (obs[c].resolved /\ obs[c].ret = None) => kasa_plug_instance = None
    /\ (InFlight(c) /\ last.noPlug) =>
         /\ obs[c].entry = None
         /\ obs[c].nRefresh = 0
         /\ obs[c].nConn = 1

\* C8 witness: the call after a failed resolution of a stale handle, itself
\* failing to connect.
C8_Witness ==
  \E c \in Calls :
    /\ Done(c)
    /\ last.noPlug
    /\ obs[c].ret = None
    /\ obs[c].nConn = 1

\* C9 as stated: with invocations overlapping at the awaits of
\* get_kasa_plug there is never more than one handle alive, a handle a tool
\* got from the resolver is the one in the slot, and no two invocations are
\* each connecting a handle of their own.
C9_Original ==
  /\ Cardinality(DOMAIN handles) <= 1
  /\ \A c \in Calls :
       (obs[c].resolved /\ calls[c].plug # None) =>
         calls[c].plug = kasa_plug_instance
  /\ \A c, d \in Calls :
       (calls[c].pc = "gkp_connect" /\ calls[d].pc = "gkp_connect") => c = d

\* C10 as stated: a process started without its required setting exits with
\* a non-zero status before it serves a tool (gateway, KASA_DEVICE_IP) or
\* issues a prompt (driver, GROQ_API_KEY).
C10_Original ==
  /\ KASA_DEVICE_IP = Absent =>
       /\ gwPc \in {"boot", "exit1"}
       /\ \A c \in Calls : ~InFlight(c)
  /\ groq_api_key = Absent =>
       /\ drvPc \in {"boot", "exit1"}
       /\ drvStep = 0

\* The call got a handle and then its command or its own refresh raised.
FailedAfterResolve(c) ==
  /\ obs[c].resolved
  /\ obs[c].ret # None
  /\ obs[c].cmd \in {"unreachable", "rejected"} \/ obs[c].upd = "unreachable"

\* C11: when resolution succeeds but the power command or a later refresh
\* raises, the tool returns a record carrying only an error message, nothing
\* is raised out of it and the gateway keeps serving: a call made after any
\* number of such failures, with the device reachable and obeying, returns a
\* success record (list: its one entry).
C11_PerCallErrorsAreResults ==
  \A c \in Calls :
    /\ InFlight(c) => gwPc = "serving"
    /\ (Done(c) /\ FailedAfterResolve(c)) =>
         /\ calls[c].result = FailedRecord(handles[calls[c].plug])
         /\ calls[c].result.keys = {"error"}
    /\ (Done(c) /\ last.failedBefore /\ obs[c].allOK) =>
         IF calls[c].op = "list"
           THEN calls[c].result.type = "list" /\ calls[c].result.len = 1
           ELSE IsSuccess(calls[c].result)

\* C11 witness: a turn on that succeeds after an earlier call failed past its
\* resolution.
C11_Witness ==
  \E c \in Calls :
    /\ Done(c)
    /\ last.failedBefore
    /\ obs[c].allOK
    /\ calls[c].op = "on"
    /\ IsSuccess(calls[c].result)

\* Some step of the driver, or of a tool call its agent is waiting for, can
\* be taken.
DriverCanMove ==
  \/ ENABLED (DriverSetup \/ DriverPrompt \/ DriverAnswer \/ DriverEnd)
  \/ \E c \in Calls :
       /\ calls[c].by = "agent"
       /\ ENABLED (RefreshCached(c) \/ Connect(c) \/ Command(c) \/ OpUpdate(c)
                   \/ ReturnLogged(c))

\* What holds of the driver in every state.
DriverOrder ==
  /\ Len(issued) = drvStep
  /\ Len(issued) <= Len(Prompts)
  /\ \A k \in 1..Len(issued) : issued[k] = Prompts[k]
  /\ ~AgentIdle => drvPc = "awaiting"
  /\ drvPc \in {"get_tools", "ready", "awaiting"} => DriverCanMove

\* What holds of every step: a prompt is issued only with the previous
\* round-trip over and no tool call of the agent left, and after the last
\* line nothing more is issued.
DriverStep ==
  /\ issued' # issued =>
       /\ drvPc = "ready" /\ drvPc' = "awaiting"
       /\ AgentIdle
       /\ Len(issued') = Len(issued) + 1
  /\ drvPc = "finished" => (drvPc' = "finished" /\ issued' = issued)

\* C12: the driver issues list, turn on, check status, turn off in that
\* order, each only after the agent round-trip before it, tool calls
\* included, is over, so no two prompts are in flight; and it always goes on
\* to its last line, after the fourth answer or after a raise, issuing
\* nothing afterwards.
C12_DriverOrdering == [](DriverOrder) /\ [][DriverStep]_vars

\* C12 witness: the second round-trip raised after a turn on went through;
\* the script is at its last line with two prompts issued.
C12_Witness ==
  /\ drvPc = "finished"
  /\ issued = <<"list", "turn on">>
  /\ last.op = "on"

\* C13: get status and list send no power command: at every point of such
\* a call, succeeding or failing, from an empty or a filled slot, the relay
\* is as it was when the call began unless somebody outside switched it; and
\* a call during which the relay changed without an outside hand is a turn
\* on or a turn off whose command was obeyed.
C13_ReadOnlyToolsLeaveRelay ==
  \A c \in Calls :
    (InFlight(c) /\ ~obs[c].tog) =>
      /\ calls[c].op \in {"status", "list"} =>
           (power = obs[c].power0 /\ obs[c].cmd = "no")
      /\ power # obs[c].power0 =>
           (calls[c].op \in {"on", "off"} /\ obs[c].cmd = "ok")

\* C13 witness: a get status on a cached handle whose own refresh failed,
\* with the relay on before and after.
C13_Witness ==
  \E c \in Calls :
    /\ Done(c)
    /\ calls[c].op = "status"
    /\ obs[c].entry # None
    /\ obs[c].upd = "unreachable"
    /\ ~obs[c].tog
    /\ obs[c].power0
    /\ power

\* C14 as stated: with invocations overlapping, a call whose update() of
\* the cached handle succeeded gets that very handle back from get_kasa_plug,
\* not None and not another handle, and its tool does not answer "not found
\* or unreachable".
C14_Original ==
  \A c \in Calls :
    (obs[c].resolved /\ obs[c].refreshed = "ok") =>
      /\ obs[c].ret # None
      /\ obs[c].ret = obs[c].entry
      /\ Done(c) => calls[c].result # UnreachableRecord

\* C15 as stated: when turn on or turn off returns a Failure record and
\* nobody outside switched the relay, the relay is as it was before the call,
\* also when the command was obeyed and only the refresh after it failed.
C15_Original ==
  \A c \in Calls :
    (Done(c) /\ calls[c].op \in {"on", "off"} /\ IsFailure(calls[c].result)
     /\ ~obs[c].tog) =>
      power = obs[c].power0

\* This call's own update() succeeded at least once (lines 42, 52, 78, 101,
\* 123).
OwnRefresh(c) ==
  obs[c].refreshed = "ok" \/ obs[c].connected = "ok" \/ obs[c].upd = "ok"

\* A success record or a list with its one entry.
ReportsState(r) == IsSuccess(r) \/ (r.type = "list" /\ r.len = 1)

\* C16, as stated: every success record and every list entry reports the
\* is_on that a successful update() of that same call read, never a value an
\* earlier call left on the handle; and when no other call overlapped this one
\* and nobody outside toggled the relay during it, the reported is_on is the
\* relay's state at the moment the call returns.
C16_Original ==
  \A c \in Calls :
    (Done(c) /\ ReportsState(calls[c].result)) =>
      /\ OwnRefresh(c)
      /\ calls[c].result.is_on = obs[c].seen
      /\ (/\ ~obs[c].overlap
          /\ ~obs[c].tog
          /\ \A d \in Calls \ {c} : ~InFlight(d)) =>
             calls[c].result.is_on = power

====
